---------------------------- MODULE Spec2Model ----------------------------
(***************************************************************************)
(* Purchase Order Analysis Tool (src/app.py).                              *)
(*                                                                         *)
(* The program is one Streamlit script.  Streamlit runs the script from    *)
(* top to bottom every time the uploaded file or a sidebar widget changes, *)
(* so every user interaction is one action that sets its widget and then   *)
(* carries out the whole script (Rerun): schema check, numeric coercion,   *)
(* filter, derived metrics, KPIs, supplier rollup, drilldown, the two      *)
(* trend tables, the two top-N charts and the export.                      *)
(*                                                                         *)
(* Values.  A text cell is a string, NoValue standing for pandas' NaN in   *)
(* a text column.  A numeric cell is NaN (the empty tuple) or <<v>> with v *)
(* an integer.  Report dates are day numbers.                              *)
(*                                                                         *)
(* The source file does not compile as it stands: the `else:` at line 102  *)
(* is followed by a line indented less than it (lines 104-105).  The model *)
(* takes lines 104-105 to be the body of that else; they only format the   *)
(* drilldown table for display and change nothing modelled here.           *)
(***************************************************************************)
EXTENDS Integers, Sequences, FiniteSets, TLC

VARIABLES
    uploaded_file,       \* NoFile, or [columns, rows] as load_data returns it
    date_range,          \* <<start, end>> of the date_input widget
    selected_suppliers,  \* value of the "Suppliers" multiselect
    selected_centers,    \* value of the "Cost Center Codes" multiselect
    message,             \* "info" | "error" | "success" | "warning"
    missing_cols,        \* columns named by st.error, in the order reported
    reached,             \* the steps of the script the last run carried out
    df,                  \* the dataset after numeric coercion
    filtered_df,         \* df[mask] with the two derived columns
    kpi,                 \* the five KPI totals
    summary,             \* Summary by Supplier
    drilldown_df,        \* PO-Level Drilldown
    trend_df,            \* date x supplier trend
    cc_trend_df,         \* date x cost-center trend
    chart1,              \* top suppliers
    chart2,              \* top cost centers
    csv,                 \* rows handed to the download button
    catalog              \* which files the user has at hand: "small" | "wide"

vars == <<uploaded_file, date_range, selected_suppliers, selected_centers,
          message, missing_cols, reached, df, filtered_df, kpi, summary,
          drilldown_df, trend_df, cc_trend_df, chart1, chart2, csv, catalog>>

---------------------------------------------------------------------------
(* Bounds of the model *)

\* Rows of an uploaded dataset of the two small families.
MaxRows == 2

\* A wide dataset has TopN + WideExtra rows, each with its own supplier and
\* cost center, so that the top-N charts have more groups than they show.
WideExtra == 1

---------------------------------------------------------------------------
(* Values *)

NoValue == "<NaN>"
NaN == <<>>
NoFile == [columns |-> {}, rows |-> <<>>, name |-> ""]
NotComputed == <<>>

Range(s) == {s[i] : i \in DOMAIN s}

\* Every text value of the model in ascending string order: Python's sorted()
\* and pandas' group-key sort compare strings, which TLC cannot.
Collation ==
    <<"101", "102", "103", "104", "105", "106", "107", "108", "109", "110",
      "111", "112", "113", "114",
      "A", "B", "C", "D", "E", "F", "G", "H", "I", "J", "K", "L", "M", "N">>

Rank == [s \in Range(Collation) |-> CHOOSE i \in DOMAIN Collation : Collation[i] = s]
Pos(s) == Rank[s]

\* Comparison of two values of column col, as pandas orders them.
Lt(col, a, b) == IF col = "Report Date" THEN a < b ELSE Pos(a) < Pos(b)

\* nlargest(10) at lines 135 and 140.
TopN == 10

required_cols ==
    <<"Supplier", "Cost Center Code", "Purchase Order Value", "Receipted Value",
      "Invoiced Value", "Report Date", "PO Number", "Description",
      "Item Description">>

money_cols == <<"Purchase Order Value", "Receipted Value", "Invoiced Value">>

sum_cols ==
    <<"Purchase Order Value", "Receipted Value", "Invoiced Value",
      "Unreceipted Value", "Uninvoiced Value">>

drilldown_cols ==
    <<"Supplier", "PO Number", "Description", "Item Description",
      "Cost Center Code", "Report Date", "Purchase Order Value",
      "Receipted Value", "Invoiced Value", "Unreceipted Value",
      "Uninvoiced Value">>

---------------------------------------------------------------------------
(* Uploaded datasets *)

MkRow(n, s, c, d, po, rec, inv) ==
    ("Supplier" :> s) @@ ("Cost Center Code" :> c) @@ ("Report Date" :> d) @@
    ("Purchase Order Value" :> po) @@ ("Receipted Value" :> rec) @@
    ("Invoiced Value" :> inv) @@ ("PO Number" :> n) @@
    ("Description" :> "d") @@ ("Item Description" :> "i")

MkFile(rows) == [columns |-> Range(required_cols), rows |-> rows, name |-> "po.csv"]

\* Rows that differ in the dimensions the filter reads: a supplier or none,
\* one of two cost centers or none, one of two report dates.
DimChoices == {"A", NoValue} \X {"101", "102", NoValue} \X {1, 2}
DimRow(n, ch) == MkRow(n, ch[1], ch[2], ch[3], "1", "1", "2")

\* Rows that differ in the supplier and the monetary cells; "TBC" is a cell
\* that is no number.  The Purchase Order Value is a number or not, and so
\* is one of the Receipted Value and the Invoiced Value.
MoneyChoices ==
    {"A", "B"} \X {"TBC", "2"} \X {<<"1", "2">>, <<"TBC", "2">>, <<"1", "TBC">>}
MoneyRow(n, ch) == MkRow(n, ch[1], "101", 1, ch[2], ch[3][1], ch[3][2])

SmallFiles ==
    UNION {
        {MkFile([i \in 1..k |-> DimRow(i, f[i])]) : f \in [1..k -> DimChoices]}
        \cup
        {MkFile([i \in 1..k |-> MoneyRow(i, f[i])]) : f \in [1..k -> MoneyChoices]}
        : k \in 1..MaxRows}

\* Wide datasets: more than TopN suppliers, or more than TopN cost centers,
\* one row each, every row on its own report date.  Under "desc" the Purchase
\* Order Values are all different; under "tie" the two smallest are equal, a
\* tie where the top-N cut falls.
WideRows == TopN + WideExtra
WideValue(shape, i) == IF shape = "desc" THEN WideRows + 1 - i
                       ELSE IF i = 1 THEN 2 ELSE i

WideFiles ==
    {MkFile([i \in 1..WideRows |->
                MkRow(i,
                      IF w[1] = "Supplier" THEN Collation[14 + i] ELSE "A",
                      IF w[1] = "Cost Center Code" THEN Collation[i] ELSE "101",
                      i, ToString(WideValue(w[2], i)), "1", "1")])
        : w \in {<<"Supplier", "tie">>, <<"Cost Center Code", "desc">>}}

\* Files that lack required columns.
BadFiles ==
    {[columns |-> cols, name |-> "po.csv",
      rows |-> <<[c \in cols |-> IF c = "Report Date" THEN 1 ELSE "1"]>>]
        : cols \in (SUBSET Range(required_cols)) \ {Range(required_cols)}}

SmallCatalog == SmallFiles \cup BadFiles
WideCatalog == WideFiles \cup BadFiles

\* The files the user can drop on the uploader, which is empty.
Files == IF uploaded_file # NoFile THEN {}
         ELSE IF catalog = "wide" THEN WideCatalog ELSE SmallCatalog

---------------------------------------------------------------------------
(* Ingestion: lines 25-36 *)

\* Mutant of MissingCols: only the first missing column is reported.
MissingColsFirstOnly(columns) ==
    LET all == SelectSeq(required_cols, LAMBDA c : c \notin columns)
    IN  IF all = <<>> THEN <<>> ELSE <<Head(all)>>

\* Line 27: the required columns the dataset lacks, in required_cols order.
MissingCols(columns) == SelectSeq(required_cols, LAMBDA c : c \notin columns)

\* The decimal numerals the uploaded cells use.
Numerals == 0..(WideRows + 2)

\* pd.to_numeric(errors="coerce") on one cell: the number a numeral denotes,
\* NaN for any other text.
NumeralValue ==
    [s \in {ToString(n) : n \in Numerals} |-> CHOOSE n \in Numerals : ToString(n) = s]
ToNumeric(cell) == IF cell \in DOMAIN NumeralValue THEN <<NumeralValue[cell]>> ELSE NaN

\* Lines 35-36: the three monetary columns coerced, every row kept.
Coerce(rows) ==
    [i \in DOMAIN rows |->
        [c \in DOMAIN rows[i] |->
            IF c \in Range(money_cols) THEN ToNumeric(rows[i][c]) ELSE rows[i][c]]]

---------------------------------------------------------------------------
(* Sidebar: lines 41-51 *)

RECURSIVE SortedKeys(_, _)
\* The tuples of S in ascending lexicographic order of the columns cols.
KeysLt(cols, a, b) ==
    \E i \in DOMAIN cols :
        /\ \A j \in 1..(i - 1) : a[j] = b[j]
        /\ Lt(cols[i], a[i], b[i])
SortedKeys(cols, S) ==
    IF S = {} THEN <<>>
    ELSE LET m == CHOOSE k \in S : \A o \in S \ {k} : KeysLt(cols, k, o)
         IN  <<m>> \o SortedKeys(cols, S \ {m})

\* Lines 44-45: sorted(df[col].dropna().unique()).
Options(rows, col) ==
    LET ks == SortedKeys(<<col>>, {<<rows[i][col]>> : i \in DOMAIN rows} \ {<<NoValue>>})
    IN  [n \in DOMAIN ks |-> ks[n][1]]

all_suppliers(rows) == Options(rows, "Supplier")
all_centers(rows) == Options(rows, "Cost Center Code")

\* Line 41.
min_date(rows) == CHOOSE d \in {rows[i]["Report Date"] : i \in DOMAIN rows} :
                    \A i \in DOMAIN rows : d <= rows[i]["Report Date"]
max_date(rows) == CHOOSE d \in {rows[i]["Report Date"] : i \in DOMAIN rows} :
                    \A i \in DOMAIN rows : d >= rows[i]["Report Date"]

---------------------------------------------------------------------------
(* Filter and derived metrics: lines 53-64 *)

\* Series.isin(values): NaN is in no list of options.
IsIn(v, values) == v \in values

\* Mutant of Mask: the end of the date range is exclusive.
MaskEndExclusive(r, dr, suppliers, centers) ==
    /\ r["Report Date"] >= dr[1]
    /\ r["Report Date"] < dr[2]
    /\ (suppliers # {} => IsIn(r["Supplier"], suppliers))
    /\ (centers # {} => IsIn(r["Cost Center Code"], centers))

\* Lines 53-60: the mask of one row.
Mask(r, dr, suppliers, centers) ==
    /\ r["Report Date"] >= dr[1]
    /\ r["Report Date"] <= dr[2]
    /\ (suppliers # {} => IsIn(r["Supplier"], suppliers))
    /\ (centers # {} => IsIn(r["Cost Center Code"], centers))

\* Mutant of Sub: a NaN operand counts as 0 (fillna(0) before subtracting).
SubNullAsZero(a, b) ==
    <<(IF a = NaN THEN 0 ELSE a[1]) - (IF b = NaN THEN 0 ELSE b[1])>>

\* Subtraction of two numeric cells: NaN if either is NaN.
Sub(a, b) == IF a = NaN \/ b = NaN THEN NaN ELSE <<a[1] - b[1]>>

\* Lines 63-64.
Derive(r) ==
    r @@ ("Unreceipted Value" :> Sub(r["Purchase Order Value"], r["Receipted Value"]))
      @@ ("Uninvoiced Value" :> Sub(r["Receipted Value"], r["Invoiced Value"]))

\* Lines 62-64: df[mask].copy() with the two derived columns.
Filtered(rows, dr, suppliers, centers) ==
    LET kept == SelectSeq(rows, LAMBDA r : Mask(r, dr, suppliers, centers))
    IN  [i \in DOMAIN kept |-> Derive(kept[i])]

---------------------------------------------------------------------------
(* Aggregation: lines 71-83 and 111-140 *)

RECURSIVE SumColCompleteRows(_, _)
\* Mutant of SumCol: a row with a NaN in any monetary column adds nothing
\* (dropna() on the rows before summing).
SumColCompleteRows(rows, col) ==
    IF rows = <<>> THEN 0
    ELSE (IF \E c \in Range(money_cols) : Head(rows)[c] = NaN
          THEN 0 ELSE Head(rows)[col][1])
         + SumColCompleteRows(Tail(rows), col)

RECURSIVE SumCol(_, _)
\* Series.sum(): NaN cells are skipped, an empty or all-NaN column sums to 0.
SumCol(rows, col) ==
    IF rows = <<>> THEN 0
    ELSE (IF Head(rows)[col] = NaN THEN 0 ELSE Head(rows)[col][1])
         + SumCol(Tail(rows), col)

\* Lines 71-75.
KPIs(rows) == [c \in Range(sum_cols) |-> SumCol(rows, c)]

KeyOf(r, cols) == [i \in DOMAIN cols |-> r[cols[i]]]

\* groupby drops the rows whose key holds a NaN (dropna=True, the default).
HasKey(r, cols) ==
    \A i \in DOMAIN cols : cols[i] = "Report Date" \/ r[cols[i]] # NoValue

\* groupby(cols)[vals].sum(): one row per distinct key, in ascending key
\* order (sort=True, the default), the key columns and the summed columns.
\* .reset_index() only turns the key from index into columns.
GroupBySum(rows, cols, vals) ==
    LET keyed == SelectSeq(rows, LAMBDA r : HasKey(r, cols))
        ks == SortedKeys(cols, {KeyOf(keyed[i], cols) : i \in DOMAIN keyed})
    IN  [n \in DOMAIN ks |->
            LET group == SelectSeq(keyed, LAMBDA r : KeyOf(r, cols) = ks[n])
            IN  [c \in Range(cols) \cup Range(vals) |->
                    IF c \in Range(cols)
                    THEN ks[n][CHOOSE i \in DOMAIN cols : cols[i] = c]
                    ELSE SumCol(group, c)]]

RECURSIVE Orders(_, _, _)
\* The orders in which an ascending sort by key may leave the rows idx of a
\* table: rows with equal keys keep their order if the sort is stable, and
\* come in any order if it is not.
Orders(idx, key, stable) ==
    IF idx = {} THEN {<<>>}
    ELSE UNION {
            {<<i>> \o o : o \in Orders(idx \ {i}, key, stable)}
            : i \in {j \in idx : \A k \in idx \ {j} :
                        key[j] < key[k] \/ (key[j] = key[k] /\ (~stable \/ j < k))}}

\* Whether the sort of sort_values keeps rows with equal keys in order.
\* sort_values is called without kind, so kind="quicksort": pandas documents
\* only "mergesort" and "stable" as stable, and numpy's quicksort is
\* introsort or a vectorised sort depending on the build.
DefaultSortIsStable == FALSE

\* DataFrame.sort_values(col, ascending=...): the tables the call may return.
SortValues(rows, col, ascending) ==
    {[n \in DOMAIN rows |-> rows[o[n]]] :
        o \in Orders(DOMAIN rows,
                     [i \in DOMAIN rows |->
                        IF ascending THEN rows[i][col] ELSE 0 - rows[i][col]],
                     DefaultSortIsStable)}

\* Mutant of NLargest: the n smallest rows (nsmallest).
NSmallest(rows, col, n) ==
    LET o == CHOOSE t \in Orders(DOMAIN rows,
                                  [i \in DOMAIN rows |-> rows[i][col]], TRUE) : TRUE
        m == IF Len(rows) < n THEN Len(rows) ELSE n
    IN  [k \in 1..m |-> rows[o[k]]]

\* Series.nlargest(n) (keep="first"): the n largest rows in descending order,
\* rows with equal values in the order they had.
NLargest(rows, col, n) ==
    LET o == CHOOSE t \in Orders(DOMAIN rows,
                                  [i \in DOMAIN rows |-> 0 - rows[i][col]], TRUE) : TRUE
        m == IF Len(rows) < n THEN Len(rows) ELSE n
    IN  [k \in 1..m |-> rows[o[k]]]

\* Mutant of Summaries: ascending=False left out.
SummariesAscending(rows) ==
    SortValues(GroupBySum(rows, <<"Supplier">>, sum_cols), "Purchase Order Value", TRUE)

\* Lines 79-83.
Summaries(rows) ==
    SortValues(GroupBySum(rows, <<"Supplier">>, sum_cols), "Purchase Order Value", FALSE)

\* Lines 88-93.
Drilldown(rows, suppliers) ==
    LET kept == SelectSeq(rows, LAMBDA r : IsIn(r["Supplier"], suppliers))
    IN  [i \in DOMAIN kept |-> [c \in Range(drilldown_cols) |-> kept[i][c]]]

\* Mutant of Trends: grouped by the dimension first and not sorted by date.
TrendsByDimension(rows, dim) ==
    {GroupBySum(rows, <<dim, "Report Date">>, <<"Purchase Order Value">>)}

\* Lines 111-116 (dim = "Supplier") and 123-128 (dim = "Cost Center Code").
Trends(rows, dim) ==
    SortValues(GroupBySum(rows, <<"Report Date", dim>>, <<"Purchase Order Value">>),
               "Report Date", TRUE)

\* Lines 135 and 140.
TopGroups(rows, dim) ==
    NLargest(GroupBySum(rows, <<dim>>, <<"Purchase Order Value">>),
             "Purchase Order Value", TopN)

---------------------------------------------------------------------------
(* The script *)

AllSteps ==
    {"schema", "coerce", "filter", "derive", "kpi", "rollup", "drilldown",
     "trend", "cc_trend", "top_suppliers", "top_centers", "export"}

NothingShown ==
    /\ kpi' = NotComputed
    /\ summary' = NotComputed
    /\ drilldown_df' = NotComputed
    /\ trend_df' = NotComputed
    /\ cc_trend_df' = NotComputed
    /\ chart1' = NotComputed
    /\ chart2' = NotComputed
    /\ csv' = NotComputed

\* Lines 153-154: no file in the uploader.
NoUpload ==
    /\ uploaded_file' = NoFile
    /\ message' = "info"
    /\ missing_cols' = <<>>
    /\ reached' = {}
    /\ date_range' = <<>>
    /\ selected_suppliers' = {}
    /\ selected_centers' = {}
    /\ df' = NotComputed
    /\ filtered_df' = NotComputed
    /\ NothingShown

\* Lines 28-31: st.error names the missing columns and st.stop() ends the run.
SchemaStop(file) ==
    /\ uploaded_file' = file
    /\ message' = "error"
    /\ missing_cols' = MissingCols(file.columns)
    /\ reached' = {"schema"}
    /\ date_range' = <<>>
    /\ selected_suppliers' = {}
    /\ selected_centers' = {}
    /\ df' = NotComputed
    /\ filtered_df' = NotComputed
    /\ NothingShown

\* Lines 33-152 with the widgets holding dr, suppliers and centers.
Pipeline(file, dr, suppliers, centers) ==
    /\ uploaded_file' = file
    /\ missing_cols' = <<>>
    /\ df' = Coerce(file.rows)
    /\ date_range' = dr
    /\ selected_suppliers' = suppliers
    /\ selected_centers' = centers
    /\ filtered_df' = Filtered(df', dr, suppliers, centers)
    /\ IF filtered_df' # <<>>
       THEN /\ message' = "success"
            /\ reached' = AllSteps
            /\ kpi' = KPIs(filtered_df')
            /\ summary' \in Summaries(filtered_df')
            /\ drilldown_df' = Drilldown(filtered_df', suppliers)
            /\ trend_df' \in Trends(filtered_df', "Supplier")
            /\ cc_trend_df' \in Trends(filtered_df', "Cost Center Code")
            /\ chart1' = TopGroups(filtered_df', "Supplier")
            /\ chart2' = TopGroups(filtered_df', "Cost Center Code")
            /\ csv' = filtered_df'
       ELSE /\ message' = "warning"
            /\ reached' = {"schema", "coerce", "filter", "derive"}
            /\ NothingShown

\* Lines 23-31: one run of the script on an uploaded file.
Rerun(file, dr, suppliers, centers) ==
    IF MissingCols(file.columns) # <<>>
    THEN SchemaStop(file)
    ELSE Pipeline(file, dr, suppliers, centers)

---------------------------------------------------------------------------
(* Actions: one per user interaction, each followed by the rerun *)

Start ==
    /\ uploaded_file = NoFile
    /\ message = "info"
    /\ missing_cols = <<>>
    /\ reached = {}
    /\ date_range = <<>>
    /\ selected_suppliers = {}
    /\ selected_centers = {}
    /\ df = NotComputed
    /\ filtered_df = NotComputed
    /\ kpi = NotComputed
    /\ summary = NotComputed
    /\ drilldown_df = NotComputed
    /\ trend_df = NotComputed
    /\ cc_trend_df = NotComputed
    /\ chart1 = NotComputed
    /\ chart2 = NotComputed
    /\ csv = NotComputed

Init == Start /\ catalog = "small"

InitWide == Start /\ catalog = "wide"

\* Line 22: a file is dropped on the uploader.  The widgets are new, so they
\* hold their defaults: the whole date range (line 42) and, both checkboxes
\* being ticked (value=True), every supplier and every cost center.
Upload(file) ==
    /\ uploaded_file = NoFile
    /\ UNCHANGED catalog
    /\ Rerun(file,
             <<min_date(file.rows), max_date(file.rows)>>,
             Range(all_suppliers(file.rows)),
             Range(all_centers(file.rows)))

\* The file is taken out of the uploader.
RemoveFile ==
    /\ uploaded_file # NoFile
    /\ UNCHANGED catalog
    /\ NoUpload

\* The sidebar is drawn only by a run that passed the schema check.
SidebarShown == uploaded_file # NoFile /\ missing_cols = <<>>

\* Line 42: the dates the date_input offers (min_value, max_value).
DateOptions == IF SidebarShown THEN min_date(df)..max_date(df) ELSE {}

\* Line 42: the user picks a range within [min_date, max_date].  A step of
\* the model moves one end of the range; a range that differs in both ends
\* is reached in two steps.
SetDateRange(start, end) ==
    /\ SidebarShown
    /\ UNCHANGED catalog
    /\ start <= end
    /\ <<start, end>> # date_range
    /\ start = date_range[1] \/ end = date_range[2]
    /\ Rerun(uploaded_file, <<start, end>>, selected_suppliers, selected_centers)

\* The values the user's edits take a multiselect to in one step of the
\* model: one option.  The empty and the full selection, which the user can
\* also reach by removing or adding options, are the two values the checkbox
\* sets (SelectAllSuppliers, SelectAllCenters).
Selections(options) == {{o} : o \in Range(options)}

\* Lines 47-48: the checkbox changes the multiselect's default, which resets
\* the multiselect to it.
SelectAllSuppliers(checked) ==
    /\ SidebarShown
    /\ UNCHANGED catalog
    /\ Rerun(uploaded_file, date_range,
             IF checked THEN Range(all_suppliers(df)) ELSE {},
             selected_centers)

\* Line 48: the user edits the multiselect.
SelectSuppliers(choice) ==
    /\ SidebarShown
    /\ UNCHANGED catalog
    /\ choice # selected_suppliers
    /\ Rerun(uploaded_file, date_range, choice, selected_centers)

\* Lines 50-51.
SelectAllCenters(checked) ==
    /\ SidebarShown
    /\ UNCHANGED catalog
    /\ Rerun(uploaded_file, date_range, selected_suppliers,
             IF checked THEN Range(all_centers(df)) ELSE {})

\* Line 51.
SelectCenters(choice) ==
    /\ SidebarShown
    /\ UNCHANGED catalog
    /\ choice # selected_centers
    /\ Rerun(uploaded_file, date_range, selected_suppliers, choice)

Next ==
    \/ \E file \in Files : Upload(file)
    \/ RemoveFile
    \/ \E start, end \in DateOptions : SetDateRange(start, end)
    \/ \E checked \in BOOLEAN : SelectAllSuppliers(checked)
    \/ \E choice \in Selections(all_suppliers(df)) : SelectSuppliers(choice)
    \/ \E checked \in BOOLEAN : SelectAllCenters(checked)
    \/ \E choice \in Selections(all_centers(df)) : SelectCenters(choice)

Spec == Init /\ [][Next]_vars

\* The same program with the wide datasets at hand.
SpecWide == InitWide /\ [][Next]_vars

---------------------------------------------------------------------------
(* Vocabulary of the properties *)

Ran(step) == step \in reached

\* The value a numeric cell adds to a null-skipping sum.
Value(cell) == IF cell = NaN THEN 0 ELSE cell[1]

RECURSIVE Total(_, _)
\* The sum of f over the finite set S.
Total(S, f) ==
    IF S = {} THEN 0
    ELSE LET x == CHOOSE y \in S : TRUE IN f[x] + Total(S \ {x}, f)

\* The sum of the non-null values of column col over the rows of filtered_df
\* whose column dim holds key.
GroupTotal(dim, key, col) ==
    LET members == {i \in DOMAIN filtered_df : filtered_df[i][dim] = key}
    IN  Total(members, [i \in members |-> Value(filtered_df[i][col])])

\* The distinct non-null values of column dim in filtered_df.
GroupKeys(dim) == {filtered_df[i][dim] : i \in DOMAIN filtered_df} \ {NoValue}

\* The filter criteria as the specification states them, on a row of df.
Passes(r) ==
    /\ date_range[1] <= r["Report Date"]
    /\ r["Report Date"] <= date_range[2]
    /\ (selected_suppliers = {} \/ r["Supplier"] \in selected_suppliers)
    /\ (selected_centers = {} \/ r["Cost Center Code"] \in selected_centers)

\* The rows of df that pass, in df's order.
Passing == SelectSeq(df, Passes)

\* A row of filtered_df without its derived columns.
Base(r) == [c \in Range(required_cols) |-> r[c]]

---------------------------------------------------------------------------
(* C1 *)

\* C1: after every run that filtered, a record of the dataset is in the
\* filtered subset if and only if its Report Date lies in the date range
\* (both ends inclusive) and the supplier set is empty or holds its Supplier
\* and the cost-center set is empty or holds its Cost Center Code; records
\* whose monetary cells were coerced to null are decided the same way.
C1_FilterContract ==
    Ran("filter") =>
        \A i \in DOMAIN df :
            (\E j \in DOMAIN filtered_df : Base(filtered_df[j]) = df[i]) <=> Passes(df[i])

\* A run in which the supplier set excludes a record that is in the date
\* range and keeps a record whose Purchase Order Value is null.
C1_Witness ==
    /\ Ran("filter")
    /\ selected_suppliers # {}
    /\ \E i \in DOMAIN df :
            /\ df[i]["Supplier"] \notin selected_suppliers
            /\ \A j \in DOMAIN filtered_df : Base(filtered_df[j]) # df[i]
    /\ \E j \in DOMAIN filtered_df : filtered_df[j]["Purchase Order Value"] = NaN

---------------------------------------------------------------------------
(* C2 *)

\* C2: a run with the supplier set empty and a run with the supplier set
\* equal to all_suppliers, on the same dataset, date range and cost-center
\* set, return the same filtered subset.
C2_EmptyMeansAll ==
    [][(/\ Ran("filter") /\ Ran("filter")'
        /\ uploaded_file' = uploaded_file
        /\ date_range' = date_range
        /\ selected_centers' = selected_centers
        /\ {selected_suppliers, selected_suppliers'} = {{}, Range(all_suppliers(df))})
       => filtered_df' = filtered_df]_vars

---------------------------------------------------------------------------
(* C3 *)

\* C3: whenever the filtered subset is not empty, the KPI total of Purchase
\* Order Value equals the sum of Purchase Order Value over the rows of the
\* supplier rollup.
C3_SumConsistency ==
    Ran("rollup") =>
        kpi["Purchase Order Value"] =
            Total(DOMAIN summary, [n \in DOMAIN summary |-> summary[n]["Purchase Order Value"]])

---------------------------------------------------------------------------
(* C4 *)

C4_Required ==
    {"Supplier", "Cost Center Code", "Purchase Order Value", "Receipted Value",
     "Invoiced Value", "Report Date", "PO Number", "Description", "Item Description"}

\* C4: if the loaded dataset lacks any of the nine required columns, the run
\* reports exactly the missing required columns, each once, and stops: no
\* later step is reached and no table, total or export exists.
C4_SchemaFailureIsFatal ==
    (uploaded_file # NoFile /\ C4_Required \ uploaded_file.columns # {}) =>
        /\ message = "error"
        /\ Range(missing_cols) = C4_Required \ uploaded_file.columns
        /\ Len(missing_cols) = Cardinality(Range(missing_cols))
        /\ reached = {"schema"}
        /\ df = NotComputed /\ filtered_df = NotComputed /\ kpi = NotComputed
        /\ summary = NotComputed /\ drilldown_df = NotComputed
        /\ trend_df = NotComputed /\ cc_trend_df = NotComputed
        /\ chart1 = NotComputed /\ chart2 = NotComputed /\ csv = NotComputed

\* A run stopped by a dataset that lacks several required columns.
C4_Witness ==
    /\ uploaded_file # NoFile
    /\ Cardinality(C4_Required \ uploaded_file.columns) >= 2
    /\ message = "error"

---------------------------------------------------------------------------
(* C5 *)

C5_Difference(a, b) == IF a # NaN /\ b # NaN THEN <<a[1] - b[1]>> ELSE NaN

\* C5: every record of the filtered subset has Unreceipted Value = Purchase
\* Order Value - Receipted Value and Uninvoiced Value = Receipted Value -
\* Invoiced Value when both operands are non-null and null otherwise, and
\* the annotated subset holds exactly the records that passed the filter, in
\* their order, with their fields unchanged.
C5_DerivedMetrics ==
    Ran("derive") =>
        /\ \A j \in DOMAIN filtered_df :
              LET r == filtered_df[j] IN
              /\ r["Unreceipted Value"] =
                    C5_Difference(r["Purchase Order Value"], r["Receipted Value"])
              /\ r["Uninvoiced Value"] =
                    C5_Difference(r["Receipted Value"], r["Invoiced Value"])
        /\ Len(filtered_df) = Len(Passing)
        /\ \A j \in DOMAIN filtered_df : Base(filtered_df[j]) = Passing[j]

\* A filtered subset with a null derived value beside a non-null one in the
\* same record, and a record with a negative derived value.
C5_Witness ==
    /\ Ran("derive")
    /\ \E j \in DOMAIN filtered_df :
            /\ filtered_df[j]["Unreceipted Value"] = NaN
            /\ filtered_df[j]["Uninvoiced Value"] # NaN
    /\ \E j \in DOMAIN filtered_df :
            /\ filtered_df[j]["Unreceipted Value"] # NaN
            /\ filtered_df[j]["Unreceipted Value"][1] > 0
            /\ filtered_df[j]["Uninvoiced Value"] # NaN
            /\ filtered_df[j]["Uninvoiced Value"][1] < 0

---------------------------------------------------------------------------
(* C6 *)

\* The top-N bound for one chart: as many rows as min(TopN, distinct groups),
\* one group per row with that group's sum, and no group left out whose sum
\* is larger than a returned one.
C6_Bound(chart, dim) ==
    LET keys == GroupKeys(dim)
        shown == {chart[n][dim] : n \in DOMAIN chart}
    IN  /\ Len(chart) = (IF Cardinality(keys) < 10 THEN Cardinality(keys) ELSE 10)
        /\ Cardinality(shown) = Len(chart)
        /\ shown \subseteq keys
        /\ \A n \in DOMAIN chart :
              chart[n]["Purchase Order Value"] =
                  GroupTotal(dim, chart[n][dim], "Purchase Order Value")
        /\ \A n \in DOMAIN chart : \A k \in keys \ shown :
              chart[n]["Purchase Order Value"] >=
                  GroupTotal(dim, k, "Purchase Order Value")

\* C6: the supplier ranking and the cost-center ranking each return
\* min(10, number of distinct groups of the filtered subset) groups, and
\* every returned group's Purchase Order Value sum is at least every
\* non-returned group's sum.
C6_TopNBound ==
    (Ran("top_suppliers") /\ Ran("top_centers")) =>
        /\ C6_Bound(chart1, "Supplier")
        /\ C6_Bound(chart2, "Cost Center Code")

\* A ranking that leaves out a group, and the group left out has the same
\* sum as a group that is shown.
C6_Witness ==
    /\ Ran("top_suppliers")
    /\ Cardinality(GroupKeys("Supplier")) > 10
    /\ Len(chart1) = 10
    /\ \E n \in DOMAIN chart1 :
         \E k \in GroupKeys("Supplier") \ {chart1[m]["Supplier"] : m \in DOMAIN chart1} :
            chart1[n]["Purchase Order Value"] = GroupTotal("Supplier", k, "Purchase Order Value")

---------------------------------------------------------------------------
(* C7 *)

\* C7: every KPI total is the sum of the non-null values of its column over
\* the filtered subset, and every monetary column of every rollup row is
\* the sum of the non-null values of that column over the records of the
\* row's supplier: a null adds nothing, a column with no non-null value sums
\* to 0, and a record with a null in one column still adds its other columns.
C7_NullSkippingSums ==
    (Ran("kpi") /\ Ran("rollup")) =>
        \A c \in {"Purchase Order Value", "Receipted Value", "Invoiced Value",
                   "Unreceipted Value", "Uninvoiced Value"} :
            /\ kpi[c] = Total(DOMAIN filtered_df,
                              [i \in DOMAIN filtered_df |-> Value(filtered_df[i][c])])
            /\ \A n \in DOMAIN summary :
                  summary[n][c] = GroupTotal("Supplier", summary[n]["Supplier"], c)

\* A rollup row of a supplier all of whose Purchase Order Values are null:
\* the row shows 0 for that column and the Receipted Value of the records.
C7_Witness ==
    /\ Ran("rollup")
    /\ \E n \in DOMAIN summary :
            /\ \A i \in DOMAIN filtered_df :
                    filtered_df[i]["Supplier"] = summary[n]["Supplier"] =>
                        filtered_df[i]["Purchase Order Value"] = NaN
            /\ summary[n]["Purchase Order Value"] = 0
            /\ summary[n]["Receipted Value"] > 0
            /\ kpi["Receipted Value"] > summary[n]["Receipted Value"]

---------------------------------------------------------------------------
(* C8 *)

\* The rollup has one row per distinct non-null Supplier of the filtered
\* subset, in non-increasing order of summed Purchase Order Value.
C8_OneRowPerSupplierDescending ==
    /\ {summary[n]["Supplier"] : n \in DOMAIN summary} = GroupKeys("Supplier")
    /\ Len(summary) = Cardinality(GroupKeys("Supplier"))
    /\ \A n \in 1..(Len(summary) - 1) :
          summary[n]["Purchase Order Value"] >= summary[n + 1]["Purchase Order Value"]

---------------------------------------------------------------------------
(* C9 *)

C9_DatesAscend(trend) ==
    \A n \in 1..(Len(trend) - 1) : trend[n]["Report Date"] <= trend[n + 1]["Report Date"]

C9_NamesAscendWithinDate(trend, dim) ==
    \A n \in 1..(Len(trend) - 1) :
        trend[n]["Report Date"] = trend[n + 1]["Report Date"]
            => Pos(trend[n][dim]) < Pos(trend[n + 1][dim])

\* C9 as stated: in both trend tables consecutive rows have non-decreasing
\* Report Dates, and rows of the same Report Date are in ascending string
\* order of the secondary dimension.
C9_TrendOrderWithinDate ==
    (Ran("trend") /\ Ran("cc_trend")) =>
        /\ C9_DatesAscend(trend_df) /\ C9_DatesAscend(cc_trend_df)
        /\ C9_NamesAscendWithinDate(trend_df, "Supplier")
        /\ C9_NamesAscendWithinDate(cc_trend_df, "Cost Center Code")

\* C9 amended: in both trend tables consecutive rows have non-decreasing
\* Report Dates; the order of rows of the same Report Date is not determined.
C9_TrendOrder ==
    (Ran("trend") /\ Ran("cc_trend")) =>
        C9_DatesAscend(trend_df) /\ C9_DatesAscend(cc_trend_df)

\* Both trend tables span two report dates.
C9_Witness ==
    /\ Ran("trend") /\ Ran("cc_trend")
    /\ Len(trend_df) >= 2 /\ Len(cc_trend_df) >= 2
    /\ trend_df[1]["Report Date"] < trend_df[2]["Report Date"]
    /\ cc_trend_df[1]["Report Date"] < cc_trend_df[2]["Report Date"]

---------------------------------------------------------------------------
(* C10 *)

\* C10: for every supplier selection, the empty one included, the drilldown
\* table holds exactly the records of the filtered subset, in their order.
C10_DrilldownAgrees ==
    Ran("drilldown") =>
        drilldown_df =
            [j \in DOMAIN filtered_df |->
                [c \in {"Supplier", "PO Number", "Description", "Item Description",
                        "Cost Center Code", "Report Date", "Purchase Order Value",
                        "Receipted Value", "Invoiced Value", "Unreceipted Value",
                        "Uninvoiced Value"} |-> filtered_df[j][c]]]

===========================================================================
